---- MODULE Spec2Model ----
(***************************************************************************)
(* clean-git: the branch service (resolver, merged/all listings, delete,   *)
(* protected-pattern test) over a git client, the clean command's policy   *)
(* filter and deletion loop, the configuration service over its YAML file, *)
(* and main with its exit codes.                                           *)
(*                                                                         *)
(* A branch name is the sequence of its "/"-separated segments:            *)
(* "origin/feat" is <<"origin", "feat">>.  Durations and instants are      *)
(* counted in hours.                                                       *)
(***************************************************************************)
EXTENDS Integers, Sequences, FiniteSets

VARIABLES
    \* the repository behind the git client
    branches,       \* names of the refs that exist
    currentBranch,  \* outcome of `git branch --show-current`: [err, name]
    commitInfo,     \* name -> outcome of `git log -1 --format=%ci|%an|%ae|%h`
    unpushed,       \* name -> outcome of the unpushed-commit query: [val, err]
    refused,        \* refs whose deletion the backend refuses
    \* the branch service
    RemoteName,     \* BranchService.RemoteName
    \* the last branch-service call: operation, outcome, client calls it made
    \* (argListing is the name listing the client handed over)
    op, argName, argBranch, argPatterns, argListing, res, resErr, resBool, calls,
    \* the clean command
    cfg, localOnly, remoteOnly, dryRun,
    pc, baseIdx, qualifyingBranches, totalProcessed, errors,
    delIdx, successCount, failCount, deletionErrors,
    \* history of the clean run: the last merged-branch query and its outcome,
    \* and the DeleteBranch calls made so far
    lastBase, lastMerged, deleteLog,
    \* the configuration service: the file at configPath, the service
    \* instance, its last call and that call's outcome; savedConfig is the
    \* configuration the last successful Save wrote (history), argConfig the
    \* configuration the last call handed to Update, if it made that call
    configFile, cfgSvc, cfgOp, cfgErr, cfgOut, cfgBool, savedConfig, argConfig,
    \* the process: the command line, whether the working directory is in
    \* a repository, main's position, the exit code, and what happened on
    \* the way (history); argAnswers is what the user typed at the prompts
    \* of the interactive configuration, if it ran
    args, inRepo, mainPc, exitCode, mainEvents, argAnswers

envVars   == <<branches, currentBranch, commitInfo, unpushed, refused>>
svcVars   == <<op, argName, argBranch, argPatterns, argListing, res, resErr,
               resBool, calls>>
cleanVars == <<cfg, localOnly, remoteOnly, dryRun, pc, baseIdx,
               qualifyingBranches, totalProcessed, errors, delIdx,
               successCount, failCount, deletionErrors,
               lastBase, lastMerged, deleteLog>>
cfgVars   == <<configFile, cfgSvc, cfgOp, cfgErr, cfgOut, cfgBool, savedConfig,
               argConfig>>
mainVars  == <<args, inRepo, mainPc, exitCode, mainEvents, argAnswers>>
vars      == <<envVars, RemoteName, svcVars, cleanVars, cfgVars, mainVars>>

----------------------------------------------------------------------------
(* Bounds and the finite universe the inputs are drawn from.               *)

\* at most this many refs have their deletion refused by the backend
MaxRefused == 1
\* direct DeleteBranch calls are made while fewer refs than this are gone
MaxDeletes == 1

Origin == "origin"

Main      == <<"main">>
Develop   == <<"develop">>
Feat      == <<"feat">>
OriginFeat   == <<"origin", "feat">>
OriginMain   == <<"origin", "main">>
UpstreamFeat == <<"upstream", "feat">>
OriginHead   == <<"origin", "HEAD">>
UpstreamHead == <<"upstream", "HEAD">>
\* a ref of the remote whose own name starts with "origin/"
OriginOriginFeat == <<"origin", "origin", "feat">>
\* a name no ref carries
Gone         == <<"gone">>

RepoBranches == {Main, Develop, Feat, OriginFeat, OriginMain, UpstreamFeat,
                 OriginHead, UpstreamHead, OriginOriginFeat}
AllNames     == RepoBranches \cup {Gone}
\* local branches `git branch -d` turns down as not fully merged
NotFullyMerged == {Develop}
RemoteNames  == {"", "upstream"}

\* hours between the zero time.Time (year 1) and the moment of the run
Now == 17756000
\* the largest time.Duration (2^63 - 1 ns), in hours
MaxDuration == 2562047
ZeroTime == 0

RECURSIVE SeqToSet(_)
SeqToSet(s) == IF s = <<>> THEN {} ELSE {Head(s)} \cup SeqToSet(Tail(s))

----------------------------------------------------------------------------
(* Regular expressions.  A pattern is one of                               *)
(*   Bad        "[invalid"   does not compile                              *)
(*   DotStar    ".*"                                                       *)
(*   Full(n)    "^n$"                                                      *)
(*   Sub(n)     "n"          unanchored: matches when n occurs in the name *)

Bad     == [kind |-> "bad",  arg |-> <<>>]
DotStar == [kind |-> "any",  arg |-> <<>>]
Full(n) == [kind |-> "full", arg |-> n]
Sub(n)  == [kind |-> "sub",  arg |-> n]

Occurs(n, name) ==
    \E i \in 0..(Len(name) - Len(n)) : SubSeq(name, i + 1, i + Len(n)) = n

\* regexp.MatchString(pattern, name): [matched, err]
MatchString(pattern, name) ==
    CASE pattern.kind = "bad"  -> [matched |-> FALSE, err |-> TRUE]
      [] pattern.kind = "any"  -> [matched |-> TRUE, err |-> FALSE]
      [] pattern.kind = "full" -> [matched |-> name = pattern.arg, err |-> FALSE]
      [] OTHER                 -> [matched |-> Occurs(pattern.arg, name), err |-> FALSE]

----------------------------------------------------------------------------
(* The git client.  Every operator returns the outcome of one call.        *)

Call(o, r, n, e) == [op |-> o, remote |-> r, name |-> n, err |-> e]

\* getCurrentBranchName
getCurrentBranchNameOrEmpty(cur) == [err |-> FALSE, name |-> cur.name]

getCurrentBranchName(cur) == cur

\* getMergedBranchNames: the lines of `git branch --merged base`, the base
\* branch itself left out
RECURSIVE getMergedBranchNames(_, _)
getMergedBranchNames(lines, baseBranch) ==
    IF lines = <<>> THEN <<>>
    ELSE IF Head(lines) # baseBranch
         THEN <<Head(lines)>> \o getMergedBranchNames(Tail(lines), baseBranch)
         ELSE getMergedBranchNames(Tail(lines), baseBranch)

\* getAllBranchNames: the lines of `git branch --all`, origin/HEAD left out
RECURSIVE getAllBranchNames(_)
getAllBranchNames(lines) ==
    IF lines = <<>> THEN <<>>
    ELSE IF Head(lines) # OriginHead
         THEN <<Head(lines)>> \o getAllBranchNames(Tail(lines))
         ELSE getAllBranchNames(Tail(lines))

\* getBranchCommitInfo: fails for a ref that does not exist
getBranchCommitInfo(existing, info, name) ==
    IF name \notin existing \/ name \notin DOMAIN info \/ info[name].err
    THEN [err |-> TRUE, parts |-> <<>>]
    ELSE [err |-> FALSE, parts |-> info[name].parts]

\* hasUnpushedCommits: (bool, error)
hasUnpushedCommits(unp, name) ==
    IF name \in DOMAIN unp THEN unp[name] ELSE [val |-> FALSE, err |-> FALSE]

\* deleteLocalBranch: `git branch -d`, and when that fails `git branch -D`;
\* the call fails when both do.  Both fail for a missing ref, the checked-out
\* branch, or a backend refusal; -d alone fails for a branch that is not
\* fully merged
deleteLocalBranch(existing, cur, ref, unm, name) ==
    LET forceFails == \/ name \notin existing
                      \/ name \in ref
                      \/ (~cur.err /\ cur.name = name)
        plainFails == forceFails \/ name \in unm
    IN  plainFails /\ forceFails

\* deleteRemoteBranch: `git push remote --delete name`
deleteRemoteBranch(existing, ref, remote, name) ==
    LET key == <<remote>> \o name IN key \notin existing \/ key \in ref

----------------------------------------------------------------------------
(* Branch records and the resolver.                                        *)

NilBranch ==
    [Name |-> <<>>, IsCurrent |-> FALSE, IsRemote |-> FALSE, IsMerged |-> FALSE,
     LastCommitAt |-> ZeroTime, LastCommitSHA |-> "", AuthorUserName |-> "",
     AuthorEmail |-> "", HasUnpushedCommits |-> FALSE, Remote |-> ""]

\* time.Parse of the first field; the zero time when it does not parse
ParseTimeOrNow(stamp) == IF stamp.valid THEN stamp.at ELSE Now

ParseTime(stamp) == IF stamp.valid THEN stamp.at ELSE ZeroTime

\* the remote name the resolver tests the prefix against
EffectiveRemote(svcRemote) == IF svcRemote # "" THEN svcRemote ELSE Origin

\* strings.HasPrefix(branchName, remoteName + "/")
HasAnyPrefix(branchName, remoteName) == Len(branchName) > 1

HasRemotePrefix(branchName, remoteName) ==
    Len(branchName) > 1 /\ Head(branchName) = remoteName

\* the Remote field written for a name: remoteName when it carries the
\* prefix, empty otherwise
RemoteAlwaysSet(isRemote, remoteName) == remoteName

RemoteField(isRemote, remoteName) == IF isRemote THEN remoteName ELSE ""

\* the IsCurrent field: the stripped name is the checked-out one, and the
\* record is local
IsCurrentByNameOnly(actualName, currentBranchName, isRemote) ==
    actualName = currentBranchName

IsCurrentField(actualName, currentBranchName, isRemote) ==
    actualName = currentBranchName /\ ~isRemote

\* the record has exactly the four fields date|author|email|sha
FieldCountAtLeast4(parts) == Len(parts) >= 4

FieldCountOk(parts) == Len(parts) = 4

\* the unpushed-commit query of the resolver: made for a local name only,
\* its error dropped; a remote name gets false without a call
UnpushedQueryAlways(isRemote, unp, actualName) ==
    LET hu == hasUnpushedCommits(unp, actualName)
    IN  [called |-> TRUE, val |-> hu.val, err |-> hu.err]

UnpushedQuery(isRemote, unp, actualName) ==
    IF isRemote THEN [called |-> FALSE, val |-> FALSE, err |-> FALSE]
    ELSE LET hu == hasUnpushedCommits(unp, actualName)
         IN  [called |-> TRUE, val |-> hu.val, err |-> hu.err]

\* createBranchFromName: [err, branch, calls]
createBranchFromNameUnpushedFatal(svcRemote, existing, cur, info, unp, branchName) ==
    LET remoteName == EffectiveRemote(svcRemote)
        isRemote   == HasRemotePrefix(branchName, remoteName)
        actualName == IF isRemote THEN Tail(branchName) ELSE branchName
        remote     == RemoteField(isRemote, remoteName)
        branchNameForCommitInfo == IF isRemote THEN branchName ELSE actualName
        ci     == getBranchCommitInfo(existing, info, branchNameForCommitInfo)
        c1     == <<Call("GetBranchCommitInfo", "", branchNameForCommitInfo, ci.err)>>
        cb     == getCurrentBranchName(cur)
        c2     == c1 \o <<Call("GetCurrentBranchName", "", <<>>, cb.err)>>
        hu     == UnpushedQuery(isRemote, unp, actualName)
        c3     == IF ~hu.called THEN c2
                  ELSE c2 \o <<Call("HasUnpushedCommits", "", actualName, hu.err)>>
    IN  IF ci.err THEN [err |-> TRUE, branch |-> NilBranch, calls |-> c1]
        ELSE IF ~FieldCountOk(ci.parts)
        THEN [err |-> TRUE, branch |-> NilBranch, calls |-> c1]
        ELSE IF cb.err THEN [err |-> TRUE, branch |-> NilBranch, calls |-> c2]
        ELSE IF hu.err THEN [err |-> TRUE, branch |-> NilBranch, calls |-> c3]
        ELSE [err |-> FALSE,
              branch |->
                [Name |-> actualName,
                 IsCurrent |-> IsCurrentField(actualName, cb.name, isRemote),
                 IsRemote |-> isRemote,
                 IsMerged |-> FALSE,
                 LastCommitAt |-> ParseTime(ci.parts[1]),
                 LastCommitSHA |-> ci.parts[4],
                 AuthorUserName |-> ci.parts[2],
                 AuthorEmail |-> ci.parts[3],
                 HasUnpushedCommits |-> hu.val,
                 Remote |-> remote],
              calls |-> c3]

createBranchFromName(svcRemote, existing, cur, info, unp, branchName) ==
    LET remoteName == EffectiveRemote(svcRemote)
        isRemote   == HasRemotePrefix(branchName, remoteName)
        actualName == IF isRemote THEN Tail(branchName) ELSE branchName
        remote     == RemoteField(isRemote, remoteName)
        branchNameForCommitInfo == IF isRemote THEN branchName ELSE actualName
        ci     == getBranchCommitInfo(existing, info, branchNameForCommitInfo)
        c1     == <<Call("GetBranchCommitInfo", "", branchNameForCommitInfo, ci.err)>>
        cb     == getCurrentBranchName(cur)
        c2     == c1 \o <<Call("GetCurrentBranchName", "", <<>>, cb.err)>>
        hu     == UnpushedQuery(isRemote, unp, actualName)
        c3     == IF ~hu.called THEN c2
                  ELSE c2 \o <<Call("HasUnpushedCommits", "", actualName, hu.err)>>
    IN  IF ci.err THEN [err |-> TRUE, branch |-> NilBranch, calls |-> c1]
        ELSE IF ~FieldCountOk(ci.parts)
        THEN [err |-> TRUE, branch |-> NilBranch, calls |-> c1]
        ELSE IF cb.err THEN [err |-> TRUE, branch |-> NilBranch, calls |-> c2]
        ELSE [err |-> FALSE,
              branch |->
                [Name |-> actualName,
                 IsCurrent |-> IsCurrentField(actualName, cb.name, isRemote),
                 IsRemote |-> isRemote,
                 IsMerged |-> FALSE,
                 LastCommitAt |-> ParseTime(ci.parts[1]),
                 LastCommitSHA |-> ci.parts[4],
                 AuthorUserName |-> ci.parts[2],
                 AuthorEmail |-> ci.parts[3],
                 HasUnpushedCommits |-> hu.val,
                 Remote |-> remote],
              calls |-> c3]

----------------------------------------------------------------------------
(* The branch service.  DefaultBranchService (over the real client) and    *)
(* TestableBranchService (over an injected client) have the same bodies.   *)

\* GetBranchByName
GetBranchByName(svcRemote, existing, cur, info, unp, branchName) ==
    createBranchFromName(svcRemote, existing, cur, info, unp, branchName)

\* GetCurrentBranch: [err, branch, calls]
GetCurrentBranch(svcRemote, existing, cur, info, unp) ==
    LET cb == getCurrentBranchName(cur)
        c0 == <<Call("GetCurrentBranchName", "", <<>>, cb.err)>>
        r  == GetBranchByName(svcRemote, existing, cur, info, unp, cb.name)
    IN  IF cb.err THEN [err |-> TRUE, branch |-> NilBranch, calls |-> c0]
        ELSE [err |-> r.err, branch |-> r.branch, calls |-> c0 \o r.calls]

\* the flag GetMergedBranches sets on every record it resolved
MarkMergedLocalOnly(branch) == [branch EXCEPT !.IsMerged = ~branch.IsRemote]

MarkMerged(branch) == [branch EXCEPT !.IsMerged = TRUE]

\* the loop of GetMergedBranches over the listed names: [branches, calls]
RECURSIVE ResolveMergedStopAtFailure(_, _, _, _, _, _)
ResolveMergedStopAtFailure(svcRemote, existing, cur, info, unp, names) ==
    IF names = <<>> THEN [branches |-> <<>>, calls |-> <<>>]
    ELSE LET r    == GetBranchByName(svcRemote, existing, cur, info, unp, Head(names))
             rest == ResolveMergedStopAtFailure(svcRemote, existing, cur, info,
                                                unp, Tail(names))
         IN  IF r.err
             THEN [branches |-> <<>>, calls |-> r.calls]
             ELSE [branches |-> <<MarkMerged(r.branch)>> \o rest.branches,
                   calls |-> r.calls \o rest.calls]

RECURSIVE ResolveMerged(_, _, _, _, _, _)
ResolveMerged(svcRemote, existing, cur, info, unp, names) ==
    IF names = <<>> THEN [branches |-> <<>>, calls |-> <<>>]
    ELSE LET r    == GetBranchByName(svcRemote, existing, cur, info, unp, Head(names))
             rest == ResolveMerged(svcRemote, existing, cur, info, unp, Tail(names))
         IN  IF r.err
             THEN [branches |-> rest.branches, calls |-> r.calls \o rest.calls]
             ELSE [branches |-> <<MarkMerged(r.branch)>> \o rest.branches,
                   calls |-> r.calls \o rest.calls]

\* GetMergedBranches: [err, branches, calls]; listing is the client's
\* outcome [err, names]
GetMergedBranches(svcRemote, existing, cur, info, unp, listing, baseBranch) ==
    LET c0 == <<Call("GetMergedBranchNames", "", baseBranch, listing.err)>>
        r  == ResolveMerged(svcRemote, existing, cur, info, unp, listing.names)
    IN  IF listing.err THEN [err |-> TRUE, branches |-> <<>>, calls |-> c0]
        ELSE [err |-> FALSE, branches |-> r.branches, calls |-> c0 \o r.calls]

\* the loop of GetAllBranches over the listed names: [branches, calls]
RECURSIVE ResolveAll(_, _, _, _, _, _)
ResolveAll(svcRemote, existing, cur, info, unp, names) ==
    IF names = <<>> THEN [branches |-> <<>>, calls |-> <<>>]
    ELSE LET r    == createBranchFromName(svcRemote, existing, cur, info, unp, Head(names))
             rest == ResolveAll(svcRemote, existing, cur, info, unp, Tail(names))
         IN  IF Head(names) = OriginHead THEN rest
             ELSE IF r.err
             THEN [branches |-> rest.branches, calls |-> r.calls \o rest.calls]
             ELSE [branches |-> <<r.branch>> \o rest.branches,
                   calls |-> r.calls \o rest.calls]

\* GetAllBranches: [err, branches, calls]
GetAllBranches(svcRemote, existing, cur, info, unp, listing) ==
    LET c0 == <<Call("GetAllBranchNames", "", <<>>, listing.err)>>
        r  == ResolveAll(svcRemote, existing, cur, info, unp, listing.names)
    IN  IF listing.err THEN [err |-> TRUE, branches |-> <<>>, calls |-> c0]
        ELSE [err |-> FALSE, branches |-> r.branches, calls |-> c0 \o r.calls]

\* the remote DeleteBranch deletes from
DeleteRemoteOfNoDefault(svcRemote, branch) ==
    IF branch.Remote # "" THEN branch.Remote ELSE svcRemote

DeleteRemoteOf(svcRemote, branch) ==
    IF branch.Remote # "" THEN branch.Remote
    ELSE IF svcRemote # "" THEN svcRemote
    ELSE Origin

\* DeleteBranch: [err, branch, calls, existing]; branch is the passed record
\* as the call leaves it, existing the refs that remain
DeleteBranchWritingOnSuccess(svcRemote, existing, cur, ref, unm, branch) ==
    IF branch.IsRemote
    THEN LET r  == DeleteRemoteOf(svcRemote, branch)
             b  == [branch EXCEPT !.Remote = r]
             e  == deleteRemoteBranch(existing, ref, b.Remote, b.Name)
         IN  [err |-> e, branch |-> IF e THEN branch ELSE b,
              calls |-> <<Call("DeleteRemoteBranch", b.Remote, b.Name, e)>>,
              existing |-> IF e THEN existing
                           ELSE existing \ {<<b.Remote>> \o b.Name}]
    ELSE LET e == deleteLocalBranch(existing, cur, ref, unm, branch.Name)
         IN  [err |-> e, branch |-> branch,
              calls |-> <<Call("DeleteLocalBranch", "", branch.Name, e)>>,
              existing |-> IF e THEN existing ELSE existing \ {branch.Name}]

DeleteBranch(svcRemote, existing, cur, ref, unm, branch) ==
    IF branch.IsRemote
    THEN LET r  == DeleteRemoteOf(svcRemote, branch)
             b  == [branch EXCEPT !.Remote = r]
             e  == deleteRemoteBranch(existing, ref, b.Remote, b.Name)
         IN  [err |-> e, branch |-> b,
              calls |-> <<Call("DeleteRemoteBranch", b.Remote, b.Name, e)>>,
              existing |-> IF e THEN existing
                           ELSE existing \ {<<b.Remote>> \o b.Name}]
    ELSE LET e == deleteLocalBranch(existing, cur, ref, unm, branch.Name)
         IN  [err |-> e, branch |-> branch,
              calls |-> <<Call("DeleteLocalBranch", "", branch.Name, e)>>,
              existing |-> IF e THEN existing ELSE existing \ {branch.Name}]

\* IsProtectedBranch
RECURSIVE IsProtectedBranchStopAtInvalid(_, _)
IsProtectedBranchStopAtInvalid(branch, patterns) ==
    IF patterns = <<>> THEN FALSE
    ELSE LET m == MatchString(Head(patterns), branch.Name)
         IN  IF m.err THEN FALSE
             ELSE IF m.matched THEN TRUE
             ELSE IsProtectedBranchStopAtInvalid(branch, Tail(patterns))

RECURSIVE IsProtectedBranch(_, _)
IsProtectedBranch(branch, patterns) ==
    IF patterns = <<>> THEN FALSE
    ELSE LET m == MatchString(Head(patterns), branch.Name)
         IN  IF m.err THEN IsProtectedBranch(branch, Tail(patterns))
             ELSE IF m.matched THEN TRUE
             ELSE IsProtectedBranch(branch, Tail(patterns))

----------------------------------------------------------------------------
(* The repository and the inputs.                                          *)

Stamp(t)   == [valid |-> TRUE, at |-> t]
BadStamp   == [valid |-> FALSE, at |-> 0]
Info(st)   == [err |-> FALSE, parts |-> <<st, "an", "ae", "sha">>]
InfoErr    == [err |-> TRUE, parts |-> <<>>]
\* a record with three fields instead of four
InfoShort  == [err |-> FALSE, parts |-> <<Stamp(Now - 72), "an", "ae">>]
\* a record with five: the author name holds a "|"
InfoLong   == [err |-> FALSE, parts |-> <<Stamp(Now - 72), "a", "n", "ae", "sha">>]

\* the configured maximum age (48h, as in TestBranchFiltering_ByAge)
MaxAgeHours == 48

InfoWith(featInfo) ==
    [n \in AllNames |->
        CASE n = Main         -> Info(Stamp(Now))
          [] n = Develop      -> Info(Stamp(Now - 72))
          [] n = Feat         -> featInfo
          [] n = OriginFeat   -> Info(Stamp(Now - 72))
          [] n = OriginMain   -> Info(Stamp(Now - 100))
          [] n = UpstreamFeat -> Info(BadStamp)
          [] n = OriginHead   -> Info(Stamp(Now - 100))
          [] n = UpstreamHead -> Info(Stamp(Now - 100))
          [] n = OriginOriginFeat -> Info(Stamp(Now - 72))
          [] OTHER            -> InfoErr]

CurOk(n) == [err |-> FALSE, name |-> n]
CurErr   == [err |-> TRUE, name |-> <<>>]

NoUnpushed == [n \in {Feat} |-> [val |-> FALSE, err |-> FALSE]]
UnpushedChoices ==
    {[n \in {Feat} |-> [val |-> TRUE, err |-> FALSE]],
     [n \in {Feat} |-> [val |-> FALSE, err |-> TRUE]],
     [n \in {Feat} |-> [val |-> TRUE, err |-> TRUE]]}

RefusedChoices ==
    {r \in SUBSET {Develop, Feat, OriginFeat} : Cardinality(r) <= MaxRefused}

\* outcomes of `git branch --merged <base>`: [err, lines]
MergedOutputs ==
    {[err |-> TRUE,  lines |-> <<>>],
     [err |-> FALSE, lines |-> <<Develop, Feat, Main>>],
     [err |-> FALSE, lines |-> <<Feat, OriginFeat, UpstreamFeat>>]}

\* outcomes of `git branch --all`: [err, lines]
AllOutputs ==
    {[err |-> TRUE,  lines |-> <<>>],
     [err |-> FALSE, lines |-> <<Feat, Main, OriginHead, OriginFeat, OriginMain>>],
     [err |-> FALSE, lines |-> <<Develop, Feat, UpstreamHead, UpstreamFeat>>]}

NoListing == [err |-> FALSE, names |-> <<>>]

PatternLists ==
    {<<>>, <<Bad>>, <<Bad, DotStar>>, <<Bad, Sub(Feat)>>, <<Full(Main), Sub(Develop)>>}

\* records handed to DeleteBranch and IsProtectedBranch by a caller
Rec(n, isRemote, remote) ==
    [NilBranch EXCEPT !.Name = n, !.IsRemote = isRemote, !.Remote = remote]

DeleteInputs ==
    {Rec(Feat, FALSE, ""), Rec(Main, FALSE, ""), Rec(Develop, FALSE, ""),
     Rec(Feat, TRUE, ""), Rec(Feat, TRUE, "origin"), Rec(Feat, TRUE, "upstream")}

ProtectInputs == {Rec(Main, FALSE, ""), Rec(Feat, FALSE, ""), Rec(Develop, TRUE, "origin")}

EnvInit(curs, featInfos, unps) ==
    /\ branches = RepoBranches
    /\ currentBranch \in curs
    /\ \E fi \in featInfos : commitInfo = InfoWith(fi)
    /\ unpushed \in unps
    /\ refused \in RefusedChoices

SvcIdle ==
    /\ op = "none"
    /\ argName = <<>>
    /\ argBranch = NilBranch
    /\ argPatterns = <<>>
    /\ argListing = NoListing
    /\ res = <<>>
    /\ resErr = FALSE
    /\ resBool = FALSE
    /\ calls = <<>>

NoConfig ==
    [BaseBranches |-> <<>>, MaxAge |-> 0, ProtectedRegex |-> <<>>,
     IncludeRegex |-> <<>>, RemoteName |-> ""]

CleanIdle ==
    /\ cfg = NoConfig
    /\ localOnly = FALSE
    /\ remoteOnly = FALSE
    /\ dryRun = FALSE
    /\ pc = "idle"
    /\ baseIdx = 1
    /\ qualifyingBranches = <<>>
    /\ totalProcessed = 0
    /\ errors = <<>>
    /\ delIdx = 1
    /\ successCount = 0
    /\ failCount = 0
    /\ deletionErrors = <<>>
    /\ lastBase = <<>>
    /\ lastMerged = [err |-> FALSE, branches |-> <<>>, calls |-> <<>>]
    /\ deleteLog = <<>>

----------------------------------------------------------------------------
(* The configuration service over the file at configPath.  A file is       *)
(* [exists, valid, doc]: doc is the YAML mapping it holds, valid is false   *)
(* for a file that cannot be read or parsed.  A service instance is        *)
(* [made, onboarding, config], config being <<>> for a nil pointer and     *)
(* <<c>> otherwise.                                                        *)

Master  == <<"master">>
Release == <<"release">>
Hotfix  == <<"hotfix">>

\* DefaultConfig; MaxAge is 720 * time.Hour * 24, in hours
DefaultConfig ==
    [BaseBranches   |-> <<Main, Master, Develop>>,
     MaxAge         |-> 720 * 24,
     ProtectedRegex |-> <<Sub(Release), Sub(Hotfix)>>,
     IncludeRegex   |-> <<DotStar>>,
     RemoteName     |-> "origin"]

ConfigKeys == {"baseBranches", "maxAge", "protectedRegex", "includeRegex",
               "remoteName"}

\* Duration.String of a whole number of hours ("48h0m0s"), and
\* time.ParseDuration of such a text
DurationString(d) == <<d, "h", 0, "m", 0, "s">>
ParseDuration(t)  == t[1] + (t[3] \div 60) + (t[5] \div 3600)

\* the omitempty test of the field behind a key
IsZero(c, k) ==
    CASE k = "baseBranches"   -> c.BaseBranches = <<>>
      [] k = "maxAge"         -> c.MaxAge = 0
      [] k = "protectedRegex" -> c.ProtectedRegex = <<>>
      [] k = "includeRegex"   -> c.IncludeRegex = <<>>
      [] OTHER                -> c.RemoteName = ""

\* the YAML value written for a key
Encode(c, k) ==
    CASE k = "baseBranches"   -> c.BaseBranches
      [] k = "maxAge"         -> DurationString(c.MaxAge)
      [] k = "protectedRegex" -> c.ProtectedRegex
      [] k = "includeRegex"   -> c.IncludeRegex
      [] OTHER                -> c.RemoteName

\* yaml.Marshal(config): a mapping with the keys of the non-empty fields
Marshal(c) == [k \in {x \in ConfigKeys : ~IsZero(c, x)} |-> Encode(c, k)]

\* yaml.Unmarshal(doc, &config): the keys present overwrite the fields of
\* config, the other fields stay as they are
Unmarshal(doc, config) ==
    [BaseBranches   |-> IF "baseBranches" \in DOMAIN doc
                        THEN doc["baseBranches"] ELSE config.BaseBranches,
     MaxAge         |-> IF "maxAge" \in DOMAIN doc
                        THEN ParseDuration(doc["maxAge"]) ELSE config.MaxAge,
     ProtectedRegex |-> IF "protectedRegex" \in DOMAIN doc
                        THEN doc["protectedRegex"] ELSE config.ProtectedRegex,
     IncludeRegex   |-> IF "includeRegex" \in DOMAIN doc
                        THEN doc["includeRegex"] ELSE config.IncludeRegex,
     RemoteName     |-> IF "remoteName" \in DOMAIN doc
                        THEN doc["remoteName"] ELSE config.RemoteName]

FileAbsent   == [exists |-> FALSE, valid |-> FALSE, doc |-> <<>>]
FileCorrupt  == [exists |-> TRUE,  valid |-> FALSE, doc |-> <<>>]
FileOf(c)    == [exists |-> TRUE,  valid |-> TRUE,  doc |-> Marshal(c)]

NoService == [made |-> FALSE, onboarding |-> FALSE, config |-> <<>>]

\* the Config the file's document is decoded into: a fresh, zero one
DecodeOntoDefaults(doc) == Unmarshal(doc, DefaultConfig)

Decode(doc) == Unmarshal(doc, NoConfig)

\* load: [err, config]
load(onboarding, file) ==
    IF onboarding THEN [err |-> FALSE, config |-> <<DefaultConfig>>]
    ELSE IF ~file.exists THEN [err |-> FALSE, config |-> <<DefaultConfig>>]
    ELSE IF ~file.valid THEN [err |-> TRUE, config |-> <<>>]
    ELSE [err |-> FALSE, config |-> <<Decode(file.doc)>>]

\* NewService: [err, svc]; dirOk is whether the config directory can be
\* determined and created
NewService(file, dirOk) ==
    LET l == load(FALSE, file)
    IN  IF ~dirOk \/ l.err THEN [err |-> TRUE, svc |-> NoService]
        ELSE [err |-> FALSE,
              svc |-> [made |-> TRUE, onboarding |-> FALSE, config |-> l.config]]

\* NewOnboardingService: [err, svc]
NewOnboardingService(dirOk) ==
    IF ~dirOk THEN [err |-> TRUE, svc |-> NoService]
    ELSE [err |-> FALSE,
          svc |-> [made |-> TRUE, onboarding |-> TRUE, config |-> <<>>]]

\* Config: [svc, out]
Config(svc) ==
    LET c == IF svc.config = <<>> THEN DefaultConfig ELSE svc.config[1]
    IN  [svc |-> [svc EXCEPT !.config = <<c>>], out |-> c]

\* Save: [err, svc, file]; writeOk is whether the directory can be created
\* and the file written
Save(svc, file, writeOk) ==
    LET c == Config(svc)
    IN  [err  |-> ~writeOk,
         svc  |-> c.svc,
         file |-> IF writeOk THEN FileOf(c.out) ELSE file]

\* Update: [err, svc, file]
UpdateRollingBack(svc, file, c, writeOk) ==
    LET r == Save([svc EXCEPT !.config = <<c>>], file, writeOk)
    IN  IF r.err THEN [r EXCEPT !.svc = svc] ELSE r

Update(svc, file, c, writeOk) ==
    Save([svc EXCEPT !.config = <<c>>], file, writeOk)

\* IsOnboarded
IsOnboarded(file) == file.exists

\* configurations handed to Update
ConfigValues ==
    {[BaseBranches   |-> l[1],
      MaxAge         |-> a,
      ProtectedRegex |-> l[2],
      IncludeRegex   |-> l[3],
      RemoteName     |-> r] :
        l \in {<<<<>>, <<>>, <<>>>>,
               <<<<Main, Develop>>, <<Sub(Feat)>>, <<Sub(Feat), DotStar>>>>},
        a \in {0, 168},
        r \in {"", "upstream"}}

CfgIdle ==
    /\ configFile = FileAbsent
    /\ cfgSvc = NoService
    /\ cfgOp = "none"
    /\ cfgErr = FALSE
    /\ cfgOut = <<>>
    /\ cfgBool = FALSE
    /\ savedConfig = <<>>
    /\ argConfig = <<>>

\* parseMaxAge: [err, val]; the input is empty, a number of days, or a
\* text that is no number
NoInput     == [kind |-> "empty", days |-> 0]
Days(n)     == [kind |-> "int", days |-> n]
NotANumber  == [kind |-> "text", days |-> 0]

parseMaxAge(input, defaultDuration) ==
    IF input.kind = "empty" THEN [err |-> FALSE, val |-> defaultDuration]
    ELSE IF input.kind # "int" THEN [err |-> TRUE, val |-> 0]
    ELSE IF input.days < 0 THEN [err |-> TRUE, val |-> 0]
    ELSE [err |-> FALSE, val |-> input.days * 24]

\* a part of a comma-separated input that is empty once trimmed
BlankName    == <<>>
BlankPattern == [kind |-> "blank", arg |-> <<>>]

\* parseCommaSeparatedList: [err, val]; the input is the sequence of its
\* comma-separated parts, <<>> for an empty input
parseCommaSeparatedList(input, defaultList, validateRegex, blank) ==
    LET NonBlank(x) == x # blank
        result == SelectSeq(input, NonBlank)
    IN  IF input = <<>> THEN [err |-> FALSE, val |-> defaultList]
        ELSE IF validateRegex /\ \E i \in DOMAIN result : result[i].kind = "bad"
        THEN [err |-> TRUE, val |-> <<>>]
        ELSE IF Len(result) = 0 THEN [err |-> TRUE, val |-> <<>>]
        ELSE [err |-> FALSE, val |-> result]

\* the remote names that match ^[a-zA-Z0-9_-]+$ among the inputs used
RemoteInputOk(r) == r \in {"origin", "upstream"}

\* strings.ToLower of the confirmation answers used
ToLower(a) == CASE a = "Y" -> "y" [] a = "YES" -> "yes" [] OTHER -> a

\* runInteractiveConfiguration: [err, svc, file, updated]
runInteractiveConfigurationUnconfirmed(svc, file, ans, writeOk) ==
    LET cur == Config(svc)
        currentConfig == cur.out
        bb  == parseCommaSeparatedList(ans.base, currentConfig.BaseBranches,
                                       FALSE, BlankName)
        ma  == parseMaxAge(ans.maxAge, currentConfig.MaxAge)
        pr  == parseCommaSeparatedList(ans.protected, currentConfig.ProtectedRegex,
                                       TRUE, BlankPattern)
        inc == parseCommaSeparatedList(ans.include, currentConfig.IncludeRegex,
                                       TRUE, BlankPattern)
        remoteErr == ans.remote # "" /\ ~RemoteInputOk(ans.remote)
        newConfig ==
            [BaseBranches   |-> bb.val,
             MaxAge         |-> ma.val,
             ProtectedRegex |-> pr.val,
             IncludeRegex   |-> inc.val,
             RemoteName     |-> IF ans.remote = "" THEN currentConfig.RemoteName
                                ELSE ans.remote]
        confirmInput == ToLower(ans.confirm)
        u == Update(cur.svc, file, newConfig, writeOk)
        Leave(e) == [err |-> e, svc |-> cur.svc, file |-> file, updated |-> FALSE]
    IN  IF bb.err \/ ma.err \/ pr.err \/ inc.err \/ remoteErr THEN Leave(TRUE)
        ELSE [err |-> u.err, svc |-> u.svc, file |-> u.file, updated |-> TRUE]

runInteractiveConfiguration(svc, file, ans, writeOk) ==
    LET cur == Config(svc)
        currentConfig == cur.out
        bb  == parseCommaSeparatedList(ans.base, currentConfig.BaseBranches,
                                       FALSE, BlankName)
        ma  == parseMaxAge(ans.maxAge, currentConfig.MaxAge)
        pr  == parseCommaSeparatedList(ans.protected, currentConfig.ProtectedRegex,
                                       TRUE, BlankPattern)
        inc == parseCommaSeparatedList(ans.include, currentConfig.IncludeRegex,
                                       TRUE, BlankPattern)
        remoteErr == ans.remote # "" /\ ~RemoteInputOk(ans.remote)
        newConfig ==
            [BaseBranches   |-> bb.val,
             MaxAge         |-> ma.val,
             ProtectedRegex |-> pr.val,
             IncludeRegex   |-> inc.val,
             RemoteName     |-> IF ans.remote = "" THEN currentConfig.RemoteName
                                ELSE ans.remote]
        confirmInput == ToLower(ans.confirm)
        u == Update(cur.svc, file, newConfig, writeOk)
        Leave(e) == [err |-> e, svc |-> cur.svc, file |-> file, updated |-> FALSE]
    IN  IF bb.err \/ ma.err \/ pr.err \/ inc.err \/ remoteErr THEN Leave(TRUE)
        ELSE IF confirmInput # "y" /\ confirmInput # "yes" THEN Leave(FALSE)
        ELSE [err |-> u.err, svc |-> u.svc, file |-> u.file, updated |-> TRUE]

KeepAll(confirm) ==
    [base |-> <<>>, maxAge |-> NoInput, protected |-> <<>>, include |-> <<>>,
     remote |-> "", confirm |-> confirm]

\* what the user types at the six prompts
Answers ==
    {KeepAll("y"), KeepAll("n"),
     [base |-> <<Main, BlankName>>, maxAge |-> Days(2), protected |-> <<Sub(Develop)>>,
      include |-> <<BlankPattern, DotStar>>, remote |-> "upstream", confirm |-> "YES"],
     [KeepAll("y") EXCEPT !.maxAge = NotANumber],
     [KeepAll("y") EXCEPT !.include = <<DotStar, Bad>>],
     [KeepAll("y") EXCEPT !.remote = "my remote"],
     [KeepAll("y") EXCEPT !.base = <<BlankName>>],
     [KeepAll("y") EXCEPT !.protected = <<Bad>>],
     [KeepAll("y") EXCEPT !.maxAge = Days(-1)],
     KeepAll("")}

\* exit codes
ExitSuccess == 0
ExitGeneral == 1
ExitConfig  == 2
ExitGit     == 3
\* the exit code of a flag set made with flag.ExitOnError on a parse error
ExitFlagError == 2

\* the command line: the global flags --version/-v, --help/-h, --config,
\* the subcommand (flag.Arg(0)), and whether the global flags and the
\* subcommand's own flags parse
NoArgs == [version |-> FALSE, help |-> FALSE, config |-> FALSE, subcmd |-> "",
           parseOk |-> TRUE, subParseOk |-> TRUE]

ArgChoices ==
    {[version |-> f = "version", help |-> f = "help", config |-> c,
      subcmd |-> sc, parseOk |-> f # "bad", subParseOk |-> sp] :
        f \in {"none", "version", "help", "bad"}, c \in BOOLEAN,
        sc \in {"", "clean", "config", "prune"}, sp \in BOOLEAN}

\* the configuration a user saved earlier
SavedConfig ==
    [BaseBranches |-> <<Main>>, MaxAge |-> MaxAgeHours, ProtectedRegex |-> <<>>,
     IncludeRegex |-> <<DotStar>>, RemoteName |-> ""]

MainIdle ==
    /\ args = NoArgs
    /\ inRepo = TRUE
    /\ mainPc = "idle"
    /\ exitCode = -1
    /\ mainEvents = {}
    /\ argAnswers = <<>>

----------------------------------------------------------------------------
(* Calls of the branch service, one action per method.                     *)

Init ==
    /\ EnvInit({CurOk(Main), CurOk(Feat), CurOk(OriginFeat), CurErr},
               {Info(Stamp(Now - 48)), InfoErr, InfoShort, InfoLong},
               UnpushedChoices)
    /\ RemoteName \in RemoteNames
    /\ SvcIdle
    /\ CleanIdle
    /\ CfgIdle
    /\ MainIdle

SvcResult(o, n, b, ps, l, r, e, bo, cs) ==
    /\ op' = o
    /\ argName' = n
    /\ argBranch' = b
    /\ argPatterns' = ps
    /\ argListing' = l
    /\ res' = r
    /\ resErr' = e
    /\ resBool' = bo
    /\ calls' = cs

CallGetBranchByName ==
    \E n \in AllNames :
        LET r == GetBranchByName(RemoteName, branches, currentBranch,
                                 commitInfo, unpushed, n)
        IN  /\ SvcResult("GetBranchByName", n, NilBranch, <<>>, NoListing,
                         IF r.branch = NilBranch THEN <<>> ELSE <<r.branch>>,
                         r.err, FALSE, r.calls)
            /\ UNCHANGED <<envVars, RemoteName, cleanVars, cfgVars, mainVars>>

CallGetCurrentBranch ==
    LET r == GetCurrentBranch(RemoteName, branches, currentBranch,
                              commitInfo, unpushed)
    IN  /\ SvcResult("GetCurrentBranch", <<>>, NilBranch, <<>>, NoListing,
                     IF r.branch = NilBranch THEN <<>> ELSE <<r.branch>>,
                         r.err, FALSE, r.calls)
        /\ UNCHANGED <<envVars, RemoteName, cleanVars, cfgVars, mainVars>>

CallGetMergedBranches ==
    \E base \in {Main, Develop}, out \in MergedOutputs :
        LET listing == [err |-> out.err,
                        names |-> getMergedBranchNames(out.lines, base)]
            r == GetMergedBranches(RemoteName, branches, currentBranch,
                                   commitInfo, unpushed, listing, base)
        IN  /\ SvcResult("GetMergedBranches", base, NilBranch, <<>>, listing,
                         r.branches, r.err, FALSE, r.calls)
            /\ UNCHANGED <<envVars, RemoteName, cleanVars, cfgVars, mainVars>>

\* the listing comes from the real client (which drops origin/HEAD itself)
\* or from an injected client (which hands over its names as they are)
CallGetAllBranches ==
    \E out \in AllOutputs, realClient \in BOOLEAN :
        LET listing == [err |-> out.err,
                        names |-> IF realClient THEN getAllBranchNames(out.lines)
                                  ELSE out.lines]
            r == GetAllBranches(RemoteName, branches, currentBranch,
                                commitInfo, unpushed, listing)
        IN  /\ SvcResult("GetAllBranches", <<>>, NilBranch, <<>>, listing,
                         r.branches, r.err, FALSE, r.calls)
            /\ UNCHANGED <<envVars, RemoteName, cleanVars, cfgVars, mainVars>>

CallDeleteBranch ==
    \E b \in DeleteInputs :
        /\ Cardinality(RepoBranches \ branches) < MaxDeletes
        /\ LET r == DeleteBranch(RemoteName, branches, currentBranch, refused,
                                   NotFullyMerged, b)
           IN  /\ SvcResult("DeleteBranch", <<>>, b, <<>>, NoListing,
                            <<r.branch>>, r.err, FALSE, r.calls)
               /\ branches' = r.existing
               /\ UNCHANGED <<currentBranch, commitInfo, unpushed, refused,
                              RemoteName, cleanVars, cfgVars, mainVars>>

CallIsProtectedBranch ==
    \E b \in ProtectInputs, ps \in PatternLists :
        /\ SvcResult("IsProtectedBranch", <<>>, b, ps, NoListing, <<>>, FALSE,
                     IsProtectedBranch(b, ps), <<>>)
        /\ UNCHANGED <<envVars, RemoteName, cleanVars, cfgVars, mainVars>>

Next ==
    \/ CallGetBranchByName
    \/ CallGetCurrentBranch
    \/ CallGetMergedBranches
    \/ CallGetAllBranches
    \/ CallDeleteBranch
    \/ CallIsProtectedBranch

Spec == Init /\ [][Next]_vars

----------------------------------------------------------------------------
(* The clean command: handleCleanCommand, one action per loop iteration    *)
(* and per way out.                                                        *)

\* time.Since(t): now - t, saturating at the largest Duration
Since(t) == IF Now - t > MaxDuration THEN MaxDuration ELSE Now - t

\* the age test: a branch younger than MaxAge is skipped
TooRecentOrEqual(age, maxAge) == age <= maxAge

TooRecent(age, maxAge) == age < maxAge

\* the scope flags
ScopeExcluded(branch, lo, ro) ==
    \/ lo /\ branch.IsRemote
    \/ ro /\ ~branch.IsRemote

\* the include loop: true at the first pattern that compiles and matches
RECURSIVE IncludeMatch(_, _)
IncludeMatch(name, patterns) ==
    IF patterns = <<>> THEN FALSE
    ELSE LET m == MatchString(Head(patterns), name)
         IN  IF m.err THEN IncludeMatch(name, Tail(patterns))
             ELSE IF m.matched THEN TRUE
             ELSE IncludeMatch(name, Tail(patterns))

\* the body of the inner loop: does the record reach the append?
QualifiesUnprotected(branch, c, lo, ro) ==
    /\ ~branch.IsCurrent
    /\ ~TooRecent(Since(branch.LastCommitAt), c.MaxAge)
    /\ ~ScopeExcluded(branch, lo, ro)
    /\ IncludeMatch(branch.Name, c.IncludeRegex)

Qualifies(branch, c, lo, ro) ==
    /\ ~branch.IsCurrent
    /\ ~TooRecent(Since(branch.LastCommitAt), c.MaxAge)
    /\ ~ScopeExcluded(branch, lo, ro)
    /\ IncludeMatch(branch.Name, c.IncludeRegex)
    /\ ~IsProtectedBranch(branch, c.ProtectedRegex)

\* the inner loop over the records of one merged-branch query
RECURSIVE FilterMerged(_, _, _, _)
FilterMerged(merged, c, lo, ro) ==
    IF merged = <<>> THEN <<>>
    ELSE IF Qualifies(Head(merged), c, lo, ro)
         THEN <<Head(merged)>> \o FilterMerged(Tail(merged), c, lo, ro)
         ELSE FilterMerged(Tail(merged), c, lo, ro)

IsDeleteCall(c) == c.op \in {"DeleteLocalBranch", "DeleteRemoteBranch"}

ConfigChoices ==
    [BaseBranches   : {<<Main>>, <<Main, Develop>>},
     MaxAge         : {MaxAgeHours, MaxDuration},
     ProtectedRegex : {<<>>, <<Bad, Sub(Develop)>>},
     IncludeRegex   : {<<>>, <<Bad>>, <<Bad, DotStar>>, <<Bad, Sub(Feat)>>},
     RemoteName     : RemoteNames]

InitClean ==
    /\ EnvInit({CurOk(Main), CurOk(Feat)},
               {Info(Stamp(Now - 48)), Info(Stamp(Now - 47))},
               {NoUnpushed})
    /\ RemoteName = ""
    /\ SvcIdle
    /\ cfg \in ConfigChoices
    /\ localOnly \in BOOLEAN
    /\ remoteOnly \in BOOLEAN
    /\ dryRun \in BOOLEAN
    /\ pc = "start"
    /\ baseIdx = 1
    /\ qualifyingBranches = <<>>
    /\ totalProcessed = 0
    /\ errors = <<>>
    /\ delIdx = 1
    /\ successCount = 0
    /\ failCount = 0
    /\ deletionErrors = <<>>
    /\ lastBase = <<>>
    /\ lastMerged = [err |-> FALSE, branches |-> <<>>, calls |-> <<>>]
    /\ deleteLog = <<>>
    /\ CfgIdle
    /\ MainIdle

\* the branch service is built with the configured remote name
CleanStart ==
    /\ pc = "start"
    /\ RemoteName' = cfg.RemoteName
    /\ pc' = "bases"
    /\ UNCHANGED <<envVars, svcVars, cfg, localOnly, remoteOnly, dryRun,
                   baseIdx, qualifyingBranches, totalProcessed, errors, delIdx,
                   successCount, failCount, deletionErrors, lastBase,
                   lastMerged, deleteLog, cfgVars, mainVars>>

\* one iteration of the loop over cfg.BaseBranches
CleanBaseStopOnError ==
    /\ pc = "bases"
    /\ baseIdx <= Len(cfg.BaseBranches)
    /\ \E out \in MergedOutputs :
          LET baseBranch == cfg.BaseBranches[baseIdx]
              listing == [err |-> out.err,
                          names |-> getMergedBranchNames(out.lines, baseBranch)]
              r == GetMergedBranches(RemoteName, branches, currentBranch,
                                     commitInfo, unpushed, listing, baseBranch)
          IN  /\ lastBase' = baseBranch
              /\ lastMerged' = r
              /\ calls' = calls \o SelectSeq(r.calls, IsDeleteCall)
              /\ IF r.err
                 THEN /\ errors' = Append(errors, baseBranch)
                      /\ UNCHANGED <<totalProcessed, qualifyingBranches>>
                 ELSE /\ totalProcessed' = totalProcessed + Len(r.branches)
                      /\ qualifyingBranches' =
                            qualifyingBranches
                               \o FilterMerged(r.branches, cfg, localOnly, remoteOnly)
                      /\ UNCHANGED errors
    /\ baseIdx' = IF lastMerged'.err THEN Len(cfg.BaseBranches) + 1
                  ELSE baseIdx + 1
    /\ UNCHANGED <<envVars, RemoteName, op, argName, argBranch, argPatterns,
                   argListing, res, resErr, resBool, cfg, localOnly, remoteOnly, dryRun,
                   pc, delIdx, successCount, failCount, deletionErrors,
                   deleteLog, cfgVars, mainVars>>

CleanBase ==
    /\ pc = "bases"
    /\ baseIdx <= Len(cfg.BaseBranches)
    /\ \E out \in MergedOutputs :
          LET baseBranch == cfg.BaseBranches[baseIdx]
              listing == [err |-> out.err,
                          names |-> getMergedBranchNames(out.lines, baseBranch)]
              r == GetMergedBranches(RemoteName, branches, currentBranch,
                                     commitInfo, unpushed, listing, baseBranch)
          IN  /\ lastBase' = baseBranch
              /\ lastMerged' = r
              /\ calls' = calls \o SelectSeq(r.calls, IsDeleteCall)
              /\ IF r.err
                 THEN /\ errors' = Append(errors, baseBranch)
                      /\ UNCHANGED <<totalProcessed, qualifyingBranches>>
                 ELSE /\ totalProcessed' = totalProcessed + Len(r.branches)
                      /\ qualifyingBranches' =
                            qualifyingBranches
                               \o FilterMerged(r.branches, cfg, localOnly, remoteOnly)
                      /\ UNCHANGED errors
    /\ baseIdx' = baseIdx + 1
    /\ UNCHANGED <<envVars, RemoteName, op, argName, argBranch, argPatterns,
                   argListing, res, resErr, resBool, cfg, localOnly, remoteOnly, dryRun,
                   pc, delIdx, successCount, failCount, deletionErrors,
                   deleteLog, cfgVars, mainVars>>

CleanFrame ==
    UNCHANGED <<envVars, RemoteName, svcVars, cfg, localOnly, remoteOnly,
                dryRun, baseIdx, qualifyingBranches, totalProcessed, errors,
                delIdx, successCount, failCount, deletionErrors, lastBase,
                lastMerged, deleteLog, cfgVars, mainVars>>

\* no branch qualifies: report and return
CleanNoCandidates ==
    /\ pc = "bases"
    /\ baseIdx > Len(cfg.BaseBranches)
    /\ Len(qualifyingBranches) = 0
    /\ pc' = "none"
    /\ CleanFrame

\* --dry-run: print the candidates and return
CleanDryRun ==
    /\ pc = "bases"
    /\ baseIdx > Len(cfg.BaseBranches)
    /\ Len(qualifyingBranches) # 0
    /\ dryRun
    /\ pc' = "dryrun"
    /\ CleanFrame

\* otherwise the deletion loop starts
CleanBeginDeleteIgnoringDryRun ==
    /\ pc = "bases"
    /\ baseIdx > Len(cfg.BaseBranches)
    /\ Len(qualifyingBranches) # 0
    /\ pc' = "delete"
    /\ CleanFrame

CleanBeginDelete ==
    /\ pc = "bases"
    /\ baseIdx > Len(cfg.BaseBranches)
    /\ Len(qualifyingBranches) # 0
    /\ ~dryRun
    /\ pc' = "delete"
    /\ CleanFrame

\* one iteration of the deletion loop
CleanDeleteOneStopOnError ==
    /\ pc = "delete"
    /\ delIdx <= Len(qualifyingBranches)
    /\ LET branch == qualifyingBranches[delIdx]
           r == DeleteBranch(RemoteName, branches, currentBranch, refused,
                             NotFullyMerged, branch)
       IN  /\ branches' = r.existing
           /\ qualifyingBranches' = [qualifyingBranches EXCEPT ![delIdx] = r.branch]
           /\ deleteLog' = Append(deleteLog, [branch |-> branch, err |-> r.err])
           /\ calls' = calls \o SelectSeq(r.calls, IsDeleteCall)
           /\ IF r.err
              THEN /\ failCount' = failCount + 1
                   /\ deletionErrors' = Append(deletionErrors, branch.Name)
                   /\ delIdx' = Len(qualifyingBranches) + 1
                   /\ UNCHANGED successCount
              ELSE /\ successCount' = successCount + 1
                   /\ delIdx' = delIdx + 1
                   /\ UNCHANGED <<failCount, deletionErrors>>
    /\ UNCHANGED <<currentBranch, commitInfo, unpushed, refused, RemoteName,
                   op, argName, argBranch, argPatterns, argListing, res,
                   resErr, resBool,
                   cfg, localOnly, remoteOnly, dryRun, pc, baseIdx,
                   totalProcessed, errors, lastBase, lastMerged, cfgVars,
                   mainVars>>

CleanDeleteOne ==
    /\ pc = "delete"
    /\ delIdx <= Len(qualifyingBranches)
    /\ LET branch == qualifyingBranches[delIdx]
           r == DeleteBranch(RemoteName, branches, currentBranch, refused,
                             NotFullyMerged, branch)
       IN  /\ branches' = r.existing
           /\ qualifyingBranches' = [qualifyingBranches EXCEPT ![delIdx] = r.branch]
           /\ deleteLog' = Append(deleteLog, [branch |-> branch, err |-> r.err])
           /\ calls' = calls \o SelectSeq(r.calls, IsDeleteCall)
           /\ IF r.err
              THEN /\ failCount' = failCount + 1
                   /\ deletionErrors' = Append(deletionErrors, branch.Name)
                   /\ UNCHANGED successCount
              ELSE /\ successCount' = successCount + 1
                   /\ UNCHANGED <<failCount, deletionErrors>>
    /\ delIdx' = delIdx + 1
    /\ UNCHANGED <<currentBranch, commitInfo, unpushed, refused, RemoteName,
                   op, argName, argBranch, argPatterns, argListing, res,
                   resErr, resBool,
                   cfg, localOnly, remoteOnly, dryRun, pc, baseIdx,
                   totalProcessed, errors, lastBase, lastMerged, cfgVars,
                   mainVars>>

\* the loop is over: the deletion summary
CleanSummary ==
    /\ pc = "delete"
    /\ delIdx > Len(qualifyingBranches)
    /\ pc' = "summary"
    /\ CleanFrame

NextClean ==
    \/ CleanStart
    \/ CleanBase
    \/ CleanNoCandidates
    \/ CleanDryRun
    \/ CleanBeginDelete
    \/ CleanDeleteOne
    \/ CleanSummary

SpecClean == InitClean /\ [][NextClean]_vars

----------------------------------------------------------------------------
(* Calls of the configuration service, one action per function.            *)

InitConfig ==
    /\ EnvInit({CurOk(Main)}, {Info(Stamp(Now - 48))}, {NoUnpushed})
    /\ RemoteName = ""
    /\ SvcIdle
    /\ CleanIdle
    /\ MainIdle
    /\ configFile \in {FileAbsent, FileCorrupt}
    /\ cfgSvc = NoService
    /\ cfgOp = "none"
    /\ cfgErr = FALSE
    /\ cfgOut = <<>>
    /\ cfgBool = FALSE
    /\ savedConfig = <<>>
    /\ argConfig = <<>>

CfgFrame == UNCHANGED <<envVars, RemoteName, svcVars, cleanVars, mainVars>>

CallNewService ==
    \E dirOk \in BOOLEAN :
        LET r == NewService(configFile, dirOk)
        IN  /\ cfgOp' = "NewService"
            /\ cfgSvc' = r.svc
            /\ cfgErr' = r.err
            /\ UNCHANGED <<configFile, cfgOut, cfgBool, savedConfig>>
            /\ argConfig' = <<>>
            /\ CfgFrame

CallNewOnboardingServiceWritingDefaults ==
    \E dirOk \in BOOLEAN :
        LET r == NewOnboardingService(dirOk)
        IN  /\ cfgOp' = "NewOnboardingService"
            /\ cfgSvc' = r.svc
            /\ cfgErr' = r.err
            /\ configFile' = IF r.err THEN configFile ELSE FileOf(DefaultConfig)
            /\ UNCHANGED <<cfgOut, cfgBool, savedConfig>>
            /\ argConfig' = <<>>
            /\ CfgFrame

CallNewOnboardingService ==
    \E dirOk \in BOOLEAN :
        LET r == NewOnboardingService(dirOk)
        IN  /\ cfgOp' = "NewOnboardingService"
            /\ cfgSvc' = r.svc
            /\ cfgErr' = r.err
            /\ UNCHANGED <<configFile, cfgOut, cfgBool, savedConfig>>
            /\ argConfig' = <<>>
            /\ CfgFrame

CallConfig ==
    /\ cfgSvc.made
    /\ LET r == Config(cfgSvc)
       IN  /\ cfgOp' = "Config"
           /\ cfgSvc' = r.svc
           /\ cfgOut' = <<r.out>>
           /\ cfgErr' = FALSE
           /\ UNCHANGED <<configFile, cfgBool, savedConfig>>
           /\ argConfig' = <<>>
           /\ CfgFrame

CallSave ==
    /\ cfgSvc.made
    /\ \E writeOk \in BOOLEAN :
          LET r == Save(cfgSvc, configFile, writeOk)
          IN  /\ cfgOp' = "Save"
              /\ cfgSvc' = r.svc
              /\ configFile' = r.file
              /\ cfgErr' = r.err
              /\ savedConfig' = IF r.err THEN savedConfig ELSE r.svc.config
              /\ UNCHANGED <<cfgOut, cfgBool>>
              /\ argConfig' = <<>>
              /\ CfgFrame

CallUpdate ==
    /\ cfgSvc.made
    /\ \E c \in ConfigValues, writeOk \in BOOLEAN :
          LET r == Update(cfgSvc, configFile, c, writeOk)
          IN  /\ cfgOp' = "Update"
              /\ cfgSvc' = r.svc
              /\ configFile' = r.file
              /\ cfgErr' = r.err
              /\ savedConfig' = IF r.err THEN savedConfig ELSE r.svc.config
              /\ UNCHANGED <<cfgOut, cfgBool>>
              /\ argConfig' = <<c>>
              /\ CfgFrame

CallIsOnboarded ==
    /\ cfgSvc.made
    /\ cfgOp' = "IsOnboarded"
    /\ cfgBool' = IsOnboarded(configFile)
    /\ cfgErr' = FALSE
    /\ UNCHANGED <<configFile, cfgSvc, cfgOut, savedConfig>>
    /\ argConfig' = <<>>
    /\ CfgFrame

NextConfig ==
    \/ CallNewService
    \/ CallNewOnboardingService
    \/ CallConfig
    \/ CallSave
    \/ CallUpdate
    \/ CallIsOnboarded

SpecConfig == InitConfig /\ [][NextConfig]_vars

----------------------------------------------------------------------------
(* The process: main, from the parsing of the command line to the exit.    *)

InitMain ==
    /\ EnvInit({CurOk(Main)}, {Info(Stamp(Now - 48))}, {NoUnpushed})
    /\ RemoteName = ""
    /\ SvcIdle
    /\ cfg = NoConfig
    /\ localOnly = FALSE
    /\ remoteOnly = FALSE
    /\ dryRun \in BOOLEAN
    /\ pc = "idle"
    /\ baseIdx = 1
    /\ qualifyingBranches = <<>>
    /\ totalProcessed = 0
    /\ errors = <<>>
    /\ delIdx = 1
    /\ successCount = 0
    /\ failCount = 0
    /\ deletionErrors = <<>>
    /\ lastBase = <<>>
    /\ lastMerged = [err |-> FALSE, branches |-> <<>>, calls |-> <<>>]
    /\ deleteLog = <<>>
    /\ configFile \in {FileAbsent, FileCorrupt, FileOf(SavedConfig)}
    /\ cfgSvc = NoService
    /\ cfgOp = "none"
    /\ cfgErr = FALSE
    /\ cfgOut = <<>>
    /\ cfgBool = FALSE
    /\ savedConfig = <<>>
    /\ argConfig = <<>>
    /\ args \in ArgChoices
    /\ inRepo \in BOOLEAN
    /\ mainPc = "start"
    /\ exitCode = -1
    /\ mainEvents = {}
    /\ argAnswers = <<>>

\* os.Exit(code)
Exit(code) == mainPc' = "exit" /\ exitCode' = code

Happened(e) == mainEvents' = mainEvents \cup {e}

MainFrame ==
    UNCHANGED <<envVars, RemoteName, svcVars, args, inRepo, cfgOp, cfgErr,
                cfgOut, cfgBool>>

\* flag.Parse, then --version and --help
MainParseFlags ==
    /\ mainPc = "start"
    /\ IF ~args.parseOk THEN Exit(ExitFlagError) /\ Happened("flagError")
       ELSE IF args.version \/ args.help
       THEN Exit(ExitSuccess) /\ UNCHANGED mainEvents
       ELSE mainPc' = "repo" /\ UNCHANGED <<exitCode, mainEvents>>
    /\ UNCHANGED <<configFile, cfgSvc, savedConfig, argConfig, argAnswers, cleanVars>>
    /\ MainFrame

\* config.FindGitRepoRoot
MainFindRepo ==
    /\ mainPc = "repo"
    /\ IF ~inRepo THEN Exit(ExitGit)
       ELSE mainPc' = "service" /\ UNCHANGED exitCode
    /\ UNCHANGED <<configFile, cfgSvc, savedConfig, argConfig, argAnswers, mainEvents, cleanVars>>
    /\ MainFrame

\* config.NewService
MainNewService ==
    /\ mainPc = "service"
    /\ \E dirOk \in BOOLEAN :
          LET r == NewService(configFile, dirOk)
          IN  IF r.err
              THEN /\ Exit(ExitConfig)
                   /\ Happened("serviceFailed")
                   /\ UNCHANGED cfgSvc
              ELSE /\ cfgSvc' = r.svc
                   /\ mainPc' = "dispatch"
                   /\ UNCHANGED <<exitCode, mainEvents>>
    /\ UNCHANGED <<configFile, savedConfig, argConfig, argAnswers, cleanVars>>
    /\ MainFrame

\* no subcommand: --config starts the config flow, anything else is an error
MainNoCommandIgnoringConfigFlag ==
    /\ mainPc = "dispatch"
    /\ args.subcmd = ""
    /\ Exit(ExitGeneral)
    /\ UNCHANGED <<configFile, cfgSvc, savedConfig, argConfig, argAnswers, mainEvents, cleanVars>>
    /\ MainFrame

MainNoCommand ==
    /\ mainPc = "dispatch"
    /\ args.subcmd = ""
    /\ IF args.config THEN mainPc' = "config" /\ UNCHANGED exitCode
       ELSE Exit(ExitGeneral)
    /\ UNCHANGED <<configFile, cfgSvc, savedConfig, argConfig, argAnswers, mainEvents, cleanVars>>
    /\ MainFrame

\* a subcommand is given: onboarding, when no config file exists and the
\* subcommand is not config
MainOnboard ==
    /\ mainPc = "dispatch"
    /\ args.subcmd # ""
    /\ IF ~IsOnboarded(configFile) /\ args.subcmd # "config"
       THEN \E ans \in Answers, writeOk \in BOOLEAN :
               LET r == runInteractiveConfiguration(cfgSvc, configFile, ans, writeOk)
               IN  /\ cfgSvc' = r.svc
                   /\ configFile' = r.file
                   /\ savedConfig' = IF r.updated /\ ~r.err THEN r.svc.config
                                      ELSE savedConfig
                   /\ argConfig' = IF r.updated THEN r.svc.config ELSE <<>>
                   /\ argAnswers' = <<ans>>
                   /\ IF r.err
                      THEN /\ Exit(ExitConfig)
                           /\ mainEvents' = mainEvents
                                 \cup {"onboarding", "interactiveFailed"}
                      ELSE /\ mainPc' = "switch"
                           /\ Happened("onboarding")
                           /\ UNCHANGED exitCode
       ELSE /\ mainPc' = "switch"
            /\ UNCHANGED <<configFile, cfgSvc, savedConfig, argConfig, argAnswers, exitCode, mainEvents>>
    /\ UNCHANGED cleanVars
    /\ MainFrame

\* switch subcmd
MainSwitch ==
    /\ mainPc = "switch"
    /\ CASE args.subcmd = "clean"  -> mainPc' = "clean" /\ UNCHANGED exitCode
         [] args.subcmd = "config" -> mainPc' = "config" /\ UNCHANGED exitCode
         [] OTHER                  -> Exit(ExitGeneral)
    /\ UNCHANGED <<configFile, cfgSvc, savedConfig, argConfig, argAnswers, mainEvents, cleanVars>>
    /\ MainFrame

\* handleConfigCommand; main returns after it
MainConfigCommand ==
    /\ mainPc = "config"
    /\ IF args.subcmd = "config" /\ ~args.subParseOk
       THEN /\ Exit(ExitFlagError)
            /\ Happened("flagError")
            /\ UNCHANGED <<configFile, cfgSvc, savedConfig, argConfig, argAnswers>>
       ELSE \E ans \in Answers, writeOk \in BOOLEAN :
               LET r == runInteractiveConfiguration(cfgSvc, configFile, ans, writeOk)
               IN  /\ cfgSvc' = r.svc
                   /\ configFile' = r.file
                   /\ savedConfig' = IF r.updated /\ ~r.err THEN r.svc.config
                                      ELSE savedConfig
                   /\ argConfig' = IF r.updated THEN r.svc.config ELSE <<>>
                   /\ argAnswers' = <<ans>>
                   /\ IF r.err
                      THEN Exit(ExitConfig) /\ Happened("interactiveFailed")
                      ELSE Exit(ExitSuccess) /\ UNCHANGED mainEvents
    /\ UNCHANGED cleanVars
    /\ MainFrame

\* handleCleanCommand up to the making of the branch service
MainCleanCommandUnchecked ==
    /\ mainPc = "clean"
    /\ IF ~args.subParseOk
       THEN /\ Exit(ExitFlagError)
            /\ Happened("flagError")
            /\ UNCHANGED <<cfgSvc, cfg, pc>>
       ELSE LET c == Config(cfgSvc)
            IN  /\ cfgSvc' = c.svc
                /\ cfg' = c.out
                /\ pc' = "start"
                /\ mainPc' = "cleaning"
                /\ UNCHANGED <<exitCode, mainEvents>>
    /\ UNCHANGED <<configFile, savedConfig, argConfig, argAnswers, localOnly, remoteOnly, dryRun,
                   baseIdx, qualifyingBranches, totalProcessed, errors, delIdx,
                   successCount, failCount, deletionErrors, lastBase,
                   lastMerged, deleteLog>>
    /\ MainFrame

MainCleanCommand ==
    /\ mainPc = "clean"
    /\ IF ~args.subParseOk
       THEN /\ Exit(ExitFlagError)
            /\ Happened("flagError")
            /\ UNCHANGED <<cfgSvc, cfg, pc>>
       ELSE IF ~IsOnboarded(configFile)
       THEN /\ Exit(ExitConfig)
            /\ Happened("cleanWithoutConfig")
            /\ UNCHANGED <<cfgSvc, cfg, pc>>
       ELSE LET c == Config(cfgSvc)
            IN  /\ cfgSvc' = c.svc
                /\ cfg' = c.out
                /\ pc' = "start"
                /\ mainPc' = "cleaning"
                /\ UNCHANGED <<exitCode, mainEvents>>
    /\ UNCHANGED <<configFile, savedConfig, argConfig, argAnswers, localOnly, remoteOnly, dryRun,
                   baseIdx, qualifyingBranches, totalProcessed, errors, delIdx,
                   successCount, failCount, deletionErrors, lastBase,
                   lastMerged, deleteLog>>
    /\ MainFrame

\* handleCleanCommand has returned, and main with it
MainReturn ==
    /\ mainPc = "cleaning"
    /\ pc \in {"none", "dryrun", "summary"}
    /\ Exit(ExitSuccess)
    /\ UNCHANGED <<configFile, cfgSvc, savedConfig, argConfig, argAnswers, mainEvents, cleanVars>>
    /\ MainFrame

NextMain ==
    \/ MainParseFlags
    \/ MainFindRepo
    \/ MainNewService
    \/ MainNoCommand
    \/ MainOnboard
    \/ MainSwitch
    \/ MainConfigCommand
    \/ MainCleanCommand
    \/ CleanStart
    \/ CleanBase
    \/ CleanNoCandidates
    \/ CleanDryRun
    \/ CleanBeginDelete
    \/ CleanDeleteOne
    \/ CleanSummary
    \/ MainReturn

SpecMain == InitMain /\ [][NextMain]_vars

----------------------------------------------------------------------------
(* Properties of the branch service.                                       *)

ResolverOps == {"GetBranchByName", "GetCurrentBranch", "GetMergedBranches",
                "GetAllBranches"}

CompilesAndMatches(pattern, name) ==
    LET m == MatchString(pattern, name) IN ~m.err /\ m.matched

C8_ProtectedIffValidMatch ==
    op = "IsProtectedBranch" =>
        resBool = (\E i \in DOMAIN argPatterns :
                      CompilesAndMatches(argPatterns[i], argBranch.Name))

C8_Witness ==
    /\ op = "IsProtectedBranch"
    /\ Len(argPatterns) > 1
    /\ MatchString(argPatterns[1], argBranch.Name).err
    /\ resBool

\* C9: a result of GetAllBranches holds at most one record with IsCurrent,
\* and such a record is local and named as the client's current branch.
C9_AtMostOneCurrent ==
    op = "GetAllBranches" =>
        /\ Cardinality({i \in DOMAIN res : res[i].IsCurrent}) <= 1
        /\ \A i \in DOMAIN res :
              res[i].IsCurrent =>
                 /\ ~res[i].IsRemote
                 /\ ~currentBranch.err
                 /\ res[i].Name = currentBranch.name

C9_Witness ==
    /\ op = "GetAllBranches"
    /\ \E i, j \in DOMAIN res :
          /\ res[i].IsCurrent
          /\ res[j].IsRemote
          /\ res[j].Name = res[i].Name

\* C10: in every record the resolver produces, IsRemote holds exactly when
\* Remote is non-empty, Remote is then the effective remote name, and a
\* current record is never remote.
C10_RemoteFieldsAgree ==
    op \in ResolverOps =>
        \A i \in DOMAIN res :
            /\ res[i].IsRemote <=> res[i].Remote # ""
            /\ res[i].IsRemote =>
                  res[i].Remote = (IF RemoteName = "" THEN "origin" ELSE RemoteName)
            /\ res[i].IsCurrent => ~res[i].IsRemote

C10_Witness ==
    /\ op = "GetMergedBranches"
    /\ RemoteName = ""
    /\ \E i, j \in DOMAIN res :
          /\ res[i].IsRemote /\ res[i].Remote = "origin"
          /\ ~res[j].IsRemote /\ res[j].Remote = ""

\* the remote name in effect, and the test the claims call "classified as
\* remote": the name starts with that remote name and a "/"
Effective == IF RemoteName = "" THEN "origin" ELSE RemoteName

ClassifiedRemote(n) == Len(n) > 1 /\ n[1] = Effective

IsUnpushedCall(c) == c.op = "HasUnpushedCommits"

\* C11: a name classified as remote gets a record with HasUnpushedCommits
\* false and the client's unpushed-commit query is not called for it; the
\* query is only ever called for a name classified as local, right after
\* the commit-info and current-branch queries made for that same name.
C11_NoUnpushedQueryForRemote ==
    op \in ResolverOps =>
        /\ \A i \in DOMAIN res : res[i].IsRemote => ~res[i].HasUnpushedCommits
        /\ \A i \in DOMAIN calls :
              IsUnpushedCall(calls[i]) =>
                 /\ i > 2
                 /\ calls[i - 2].op = "GetBranchCommitInfo"
                 /\ calls[i - 2].name = calls[i].name
                 /\ ~ClassifiedRemote(calls[i].name)
        /\ (op = "GetBranchByName" /\ ClassifiedRemote(argName)) =>
              SelectSeq(calls, IsUnpushedCall) = <<>>

\* origin/feat resolved to a remote record although the query, if asked
\* about feat, would have answered true
C11_Witness ==
    /\ op = "GetBranchByName"
    /\ argName = OriginFeat
    /\ RemoteName = ""
    /\ ~resErr
    /\ res[1].IsRemote
    /\ unpushed[Feat].val

ListingOps == {"GetMergedBranches", "GetAllBranches"}

\* the resolution of a listed name succeeds: its commit-info query answers
\* with four fields and the current-branch query answers
Resolves(n) ==
    /\ n \in branches
    /\ ~commitInfo[n].err
    /\ Len(commitInfo[n].parts) = 4
    /\ ~currentBranch.err

\* the record is the one resolved from the name
RecordOf(r, n) ==
    IF ClassifiedRemote(n) THEN r.IsRemote /\ <<r.Remote>> \o r.Name = n
    ELSE ~r.IsRemote /\ r.Name = n

NotSentinel(n) == n # OriginHead

\* the listed names the operation resolves: all of them, but for the
\* origin/HEAD entry, which GetAllBranches passes over without resolving it
ListedNames ==
    IF op = "GetAllBranches" THEN SelectSeq(argListing.names, NotSentinel)
    ELSE argListing.names

\* C12 as stated: when the name listing succeeds, GetMergedBranches and
\* GetAllBranches return a nil error and one record for each listed name
\* whose resolution succeeds, in listing order; when the listing fails they
\* return the error and no record.
C12_OneRecordPerListedResolvable ==
    op \in ListingOps =>
        IF argListing.err THEN resErr /\ res = <<>>
        ELSE LET resolved == SelectSeq(argListing.names, Resolves)
             IN  /\ ~resErr
                 /\ Len(res) = Len(resolved)
                 /\ \A i \in DOMAIN res : RecordOf(res[i], resolved[i])

\* C12, amended: as above, the names counted being the listed names other
\* than the origin/HEAD entry under GetAllBranches; names whose resolution
\* fails are left out without stopping the loop.
C12_OneRecordPerResolvedName ==
    op \in ListingOps =>
        IF argListing.err THEN resErr /\ res = <<>>
        ELSE LET resolved == SelectSeq(ListedNames, Resolves)
             IN  /\ ~resErr
                 /\ Len(res) = Len(resolved)
                 /\ \A i \in DOMAIN res : RecordOf(res[i], resolved[i])

\* a name that does not resolve stood before two that do
C12_Witness ==
    /\ op \in ListingOps
    /\ ~argListing.err
    /\ Len(res) > 1
    /\ \E i, j \in DOMAIN ListedNames :
          i < j /\ ~Resolves(ListedNames[i]) /\ Resolves(ListedNames[j])

\* C13: GetBranchByName returns no record and an error whenever the
\* commit-info query fails, the commit-info record does not have exactly
\* four fields, or the current-branch query fails; an error never comes
\* with a record; and after a failed commit-info query or a malformed
\* record the commit-info query is the only client call made.
C13_ErrorMeansNoRecord ==
    op = "GetBranchByName" =>
        LET infoFails == argName \notin branches \/ commitInfo[argName].err
            malformed == ~infoFails /\ Len(commitInfo[argName].parts) # 4
        IN  /\ (infoFails \/ malformed \/ currentBranch.err) =>
                  resErr /\ res = <<>>
            /\ resErr => res = <<>>
            /\ (infoFails \/ malformed) =>
                  /\ Len(calls) = 1
                  /\ calls[1].op = "GetBranchCommitInfo"

\* a commit-info record of five fields was turned down
C13_Witness ==
    /\ op = "GetBranchByName"
    /\ argName = Feat
    /\ ~commitInfo[Feat].err
    /\ Len(commitInfo[Feat].parts) = 5
    /\ resErr
    /\ Len(calls) = 1

\* C14: every record returned by GetMergedBranches has IsMerged true, local
\* or remote; every record returned by GetAllBranches, GetBranchByName and
\* GetCurrentBranch has IsMerged false.
C14_IsMergedOnlyFromMergedQuery ==
    op \in ResolverOps =>
        \A i \in DOMAIN res : res[i].IsMerged <=> op = "GetMergedBranches"

\* a merged-branch query returned a local and a remote record
C14_Witness ==
    /\ op = "GetMergedBranches"
    /\ \E i, j \in DOMAIN res : res[i].IsRemote /\ ~res[j].IsRemote

\* C15: deleteLocalBranch(name) fails when the backend refuses the
\* deletion, in particular when the branch is not fully merged or is the
\* checked-out one, and the branch then still exists.
C15_RefusedLocalDeleteFails ==
    (/\ op = "DeleteBranch"
     /\ ~argBranch.IsRemote
     /\ \/ argBranch.Name \in NotFullyMerged
        \/ argBranch.Name \in refused
        \/ (~currentBranch.err /\ currentBranch.name = argBranch.Name))
    => (resErr /\ argBranch.Name \in branches)

\* C18: whatever remote name R is configured ("origin" when none is), no
\* record of a GetAllBranches result was resolved from the HEAD pointer
\* entry R/HEAD.
C18_NoSentinelRecord ==
    op = "GetAllBranches" =>
        \A i \in DOMAIN res : ~(res[i].IsRemote /\ res[i].Name = <<"HEAD">>)

\* C19: a name starting with the effective remote name and "/" resolves
\* to a remote record whose Name is the input without that prefix, taken
\* off once, and whose Remote is the effective remote name; any other
\* name, one prefixed by another remote included, resolves to a local
\* record with Name the input and Remote empty; either way the commit
\* info is asked for under the input name as it stands.
C19_ResolverNaming ==
    op = "GetBranchByName" =>
        /\ calls[1].op = "GetBranchCommitInfo"
        /\ calls[1].name = argName
        /\ ~resErr =>
              IF ClassifiedRemote(argName)
              THEN /\ res[1].IsRemote
                   /\ <<Effective>> \o res[1].Name = argName
                   /\ res[1].Remote = Effective
              ELSE /\ ~res[1].IsRemote
                   /\ res[1].Name = argName
                   /\ res[1].Remote = ""

\* upstream/feat resolved while the effective remote is origin
C19_Witness ==
    /\ op = "GetBranchByName"
    /\ argName = UpstreamFeat
    /\ RemoteName = ""
    /\ ~resErr
    /\ res[1].Name = UpstreamFeat

\* C20: whenever GetCurrentBranch succeeds, its record has Name equal to
\* the client's current-branch name, IsCurrent true and IsRemote false.
C20_CurrentBranchRecord ==
    (op = "GetCurrentBranch" /\ ~resErr) =>
        /\ res[1].Name = currentBranch.name
        /\ res[1].IsCurrent
        /\ ~res[1].IsRemote

\* the commit record of a listed name answers with four fields
InfoAnswers(n) ==
    /\ n \in branches
    /\ ~commitInfo[n].err
    /\ Len(commitInfo[n].parts) = 4

\* C26: when the current-branch query fails every resolution fails, of a
\* remote name as of a local one, so a listing operation whose name listing
\* succeeded returns no record and no error.
C26_CurrentQueryFailureEmptiesListing ==
    currentBranch.err =>
        /\ op = "GetBranchByName" => resErr /\ res = <<>>
        /\ (op \in ListingOps /\ ~argListing.err) => res = <<>> /\ ~resErr

\* a listing with a local and a remote name whose commit records answer
C26_Witness ==
    /\ currentBranch.err
    /\ op \in ListingOps
    /\ ~argListing.err
    /\ \E i, j \in 1..Len(ListedNames) :
          /\ InfoAnswers(ListedNames[i]) /\ ClassifiedRemote(ListedNames[i])
          /\ InfoAnswers(ListedNames[j]) /\ ~ClassifiedRemote(ListedNames[j])
    /\ \E k \in 1..Len(calls) :
          calls[k].op = "GetCurrentBranchName" /\ calls[k].err
    /\ res = <<>>
    /\ ~resErr

\* C27: for a local name an error of the unpushed-commit query does not
\* fail the resolution: the record is returned without an error and its
\* HasUnpushedCommits is the boolean the client returned with the error.
C27_UnpushedErrorIgnored ==
    (/\ op = "GetBranchByName"
     /\ ~ClassifiedRemote(argName)
     /\ Resolves(argName)
     /\ argName \in DOMAIN unpushed
     /\ unpushed[argName].err) =>
        /\ ~resErr
        /\ Len(res) = 1
        /\ res[1].Name = argName
        /\ res[1].HasUnpushedCommits = unpushed[argName].val
        /\ \E k \in 1..Len(calls) :
              /\ calls[k] = Call("HasUnpushedCommits", "", argName, TRUE)
              /\ k = Len(calls)

\* the client answered true together with an error
C27_Witness ==
    /\ op = "GetBranchByName"
    /\ argName = Feat
    /\ unpushed[Feat].err /\ unpushed[Feat].val
    /\ ~resErr
    /\ Len(res) = 1
    /\ res[1].HasUnpushedCommits

\* C28: DeleteBranch makes exactly one client call, deleteLocalBranch(Name)
\* for a local record and deleteRemoteBranch(Remote, Name) for a remote one,
\* never the other; the passed record is left as it was, except that a
\* remote record with an empty Remote gets the resolved remote name written
\* into Remote, whether the client call succeeds or fails.
C28_DeleteBranchFrame ==
    op = "DeleteBranch" =>
        /\ Len(calls) = 1
        /\ Len(res) = 1
        /\ calls[1].err = resErr
        /\ IF argBranch.IsRemote
           THEN /\ calls[1].op = "DeleteRemoteBranch"
                /\ calls[1].name = argBranch.Name
                /\ calls[1].remote = res[1].Remote
                /\ res[1] = [argBranch EXCEPT !.Remote =
                                IF argBranch.Remote = "" THEN Effective
                                ELSE argBranch.Remote]
           ELSE /\ calls[1].op = "DeleteLocalBranch"
                /\ calls[1].name = argBranch.Name
                /\ res[1] = argBranch

\* a remote record with an empty Remote whose deletion the backend refused
C28_Witness ==
    /\ op = "DeleteBranch"
    /\ argBranch.IsRemote
    /\ argBranch.Remote = ""
    /\ resErr
    /\ res[1].Remote = Effective
    /\ calls = <<Call("DeleteRemoteBranch", Effective, argBranch.Name, TRUE)>>

----------------------------------------------------------------------------
(* Properties of the configuration service.                                *)

\* C16: once Update or Save has succeeded, a service newly created with
\* NewService returns from Config() a configuration equal to the saved one
\* in each of baseBranches, maxAge, protectedRegex, includeRegex and
\* remoteName, empty lists, a zero maxAge and an empty remoteName included.
C16_ConfigRoundTrip ==
    (cfgOp = "NewService" /\ ~cfgErr /\ savedConfig # <<>>) =>
        LET loaded == Config(cfgSvc).out
            saved  == savedConfig[1]
        IN  /\ loaded.BaseBranches = saved.BaseBranches
            /\ loaded.MaxAge = saved.MaxAge
            /\ loaded.ProtectedRegex = saved.ProtectedRegex
            /\ loaded.IncludeRegex = saved.IncludeRegex
            /\ loaded.RemoteName = saved.RemoteName

\* a configuration with every field empty was saved and loaded again
C16_Witness ==
    /\ cfgOp = "NewService"
    /\ ~cfgErr
    /\ savedConfig = <<NoConfig>>
    /\ configFile.doc = <<>>
    /\ cfgSvc.config = <<NoConfig>>

\* C25: the configuration Config() hands out when no file exists, the one
\* DefaultConfig builds, has a MaxAge of 30 days, that is 720 hours.
C25_DefaultMaxAgeThirtyDays ==
    (cfgOp = "Config" /\ ~configFile.exists /\ cfgOut = <<DefaultConfig>>)
        => cfgOut[1].MaxAge = 30 * 24

\* C21: making a service, with NewService or NewOnboardingService, never
\* creates the config file, and IsOnboarded answers false while no file
\* exists; a successful Save or Update leaves the file in place, and from
\* then on the file stays and IsOnboarded answers true, for the same and
\* for every later service instance.
C21_OnboardedOnceSaved ==
    [][/\ cfgOp' \in {"NewService", "NewOnboardingService"} =>
             configFile' = configFile
       /\ (cfgOp' = "IsOnboarded" /\ ~configFile.exists) => ~cfgBool'
       /\ (cfgOp' \in {"Save", "Update"} /\ ~cfgErr') => configFile'.exists
       /\ (cfgOp' = "IsOnboarded" /\ savedConfig # <<>>) => cfgBool'
       /\ configFile.exists => configFile'.exists]_vars

\* after a save, a service made anew for onboarding answers true
C21_Witness ==
    /\ cfgOp = "IsOnboarded"
    /\ cfgBool
    /\ savedConfig # <<>>
    /\ cfgSvc.onboarding
    /\ cfgSvc.config = <<>>

----------------------------------------------------------------------------
(* Properties of the process.                                              *)

ConfigFailures == {"serviceFailed", "interactiveFailed", "cleanWithoutConfig"}

C29_UpdateKeepsConfigOnFailure ==
    [][/\ cfgOp' = "Update" =>
            /\ argConfig' # <<>>
            /\ cfgSvc'.config = argConfig'
            /\ Config(cfgSvc').out = argConfig'[1]
            /\ cfgErr' => configFile' = configFile
            /\ ~cfgErr' => configFile' = FileOf(argConfig'[1])
       /\ (cfgOp = "Update" /\ cfgOp' = "Config") => cfgOut' = argConfig]_vars

\* Config() after an Update that failed, on a service that held another
\* configuration before
C29_Witness ==
    /\ cfgOp = "Update"
    /\ cfgErr
    /\ ~configFile.exists
    /\ cfgOut # <<>>
    /\ cfgOut # argConfig
    /\ cfgSvc.config = argConfig

----------------------------------------------------------------------------
(* Properties of the clean command.                                        *)
\* a comma-separated input passes when it is empty or has a part that is
\* not blank, and, for patterns, every such part compiles
ListInputValid(input, blank, patterns) ==
    \/ input = <<>>
    \/ /\ \E i \in DOMAIN input : input[i] # blank
       /\ patterns => \A i \in DOMAIN input : input[i] = blank \/ input[i] # Bad

\* the five inputs pass validation
InputsValid(a) ==
    /\ ListInputValid(a.base, BlankName, FALSE)
    /\ a.maxAge.kind = "empty" \/ (a.maxAge.kind = "int" /\ a.maxAge.days >= 0)
    /\ ListInputValid(a.protected, BlankPattern, TRUE)
    /\ ListInputValid(a.include, BlankPattern, TRUE)
    /\ a.remote \in {"", "origin", "upstream"}

Confirmed(a) == a.confirm \in {"y", "Y", "yes", "YES"}

\* the step in which the interactive configuration ran
InteractiveRan == argAnswers = <<>> /\ argAnswers' # <<>>

\* C30: the interactive configuration calls Update exactly when the five
\* inputs pass validation and the confirmation is y or yes in any case; on
\* a validation error or any other answer it returns without that call and
\* leaves the config file and the configuration the service holds as they
\* were.
C30_UpdateOnlyWhenConfirmed ==
    [][InteractiveRan =>
         /\ (argConfig' # <<>>) = (InputsValid(argAnswers'[1])
                                      /\ Confirmed(argAnswers'[1]))
         /\ argConfig' = <<>> =>
               /\ configFile' = configFile
               /\ cfgSvc' = cfgSvc
               /\ savedConfig' = savedConfig
         /\ (~InputsValid(argAnswers'[1])) =>
               exitCode' = 2 /\ "interactiveFailed" \in mainEvents'
         /\ (InputsValid(argAnswers'[1]) /\ ~Confirmed(argAnswers'[1])) =>
               "interactiveFailed" \notin mainEvents'
         /\ argConfig' # <<>> => cfgSvc'.config = argConfig']_vars

\* an input failed validation although the user would have confirmed, and
\* the saved file is as it was
C30_Witness ==
    /\ argAnswers # <<>>
    /\ Confirmed(argAnswers[1])
    /\ ~InputsValid(argAnswers[1])
    /\ argConfig = <<>>
    /\ configFile = FileOf(SavedConfig)
    /\ cfgSvc.config = <<SavedConfig>>
    /\ exitCode = 2

\* a step of the loop over the base branches
BaseQueried == baseIdx' # baseIdx

\* C24: a merged-branch query that fails for one base adds exactly one
\* entry to the processing errors and does not stop the run: the bases are
\* queried one after the other in the configured order whatever the
\* outcome, a query that succeeds adds no entry, and what qualified under
\* the other bases is still handed to the deletion loop.
C24_FailedBaseIsSkipped ==
    [][/\ BaseQueried =>
            /\ baseIdx \in 1..Len(cfg.BaseBranches)
            /\ lastBase' = cfg.BaseBranches[baseIdx]
            /\ baseIdx' = baseIdx + 1
            /\ pc' = "bases"
            /\ IF lastMerged'.err
               THEN /\ errors' = Append(errors, cfg.BaseBranches[baseIdx])
                    /\ qualifyingBranches' = qualifyingBranches
               ELSE errors' = errors
       /\ ~BaseQueried => errors' = errors
       /\ pc' \in {"none", "dryrun", "delete", "summary"} =>
            baseIdx' = Len(cfg.BaseBranches) + 1
       /\ pc' = "summary" => Len(deleteLog') = Len(qualifyingBranches')]_vars

\* the first base failed, the second was queried and its branches deleted
C24_Witness ==
    /\ pc = "summary"
    /\ cfg.BaseBranches = <<Main, Develop>>
    /\ errors = <<Main>>
    /\ lastBase = Develop
    /\ ~lastMerged.err
    /\ successCount > 0

\* the name the commit record of a resolved branch was asked under
CommitInfoName(b) == IF b.IsRemote THEN <<b.Remote>> \o b.Name ELSE b.Name

\* the record's four fields are well formed but its timestamp does not parse
BadStampRecord(b) ==
    /\ ~commitInfo[CommitInfoName(b)].err
    /\ Len(commitInfo[CommitInfoName(b)].parts) = 4
    /\ ~commitInfo[CommitInfoName(b)].parts[1].valid

MaxAgeSamples == {0, 1, MaxAgeHours, DefaultConfig.MaxAge, MaxDuration}

\* C23: a branch whose commit record has four fields and a timestamp that
\* does not parse is resolved all the same, with the zero time as
\* LastCommitAt and the other three fields filled from the record; the age
\* step of the policy filter skips it for no maximum age, so it qualifies
\* exactly when the other steps let it through.
C23_BadStampIsOldest ==
    \A i \in 1..Len(lastMerged.branches) :
       LET b == lastMerged.branches[i]
       IN  BadStampRecord(b) =>
             /\ b.LastCommitAt = ZeroTime
             /\ b.AuthorUserName = commitInfo[CommitInfoName(b)].parts[2]
             /\ b.AuthorEmail = commitInfo[CommitInfoName(b)].parts[3]
             /\ b.LastCommitSHA = commitInfo[CommitInfoName(b)].parts[4]
             /\ \A m \in MaxAgeSamples \cup {cfg.MaxAge} :
                   ~TooRecent(Since(b.LastCommitAt), m)
             /\ Qualifies(b, cfg, localOnly, remoteOnly)
                   = Qualifies(b, [cfg EXCEPT !.MaxAge = 0], localOnly, remoteOnly)
             /\ Qualifies(b, [cfg EXCEPT !.MaxAge = 0], localOnly, remoteOnly)
                   => \E j \in 1..Len(qualifyingBranches) : qualifyingBranches[j] = b

\* the record with the bad timestamp qualified under the largest maximum age
C23_Witness ==
    /\ cfg.MaxAge = MaxDuration
    /\ \E i \in 1..Len(lastMerged.branches) :
          /\ BadStampRecord(lastMerged.branches[i])
          /\ lastMerged.branches[i].Name = UpstreamFeat
          /\ \E j \in 1..Len(qualifyingBranches) :
                qualifyingBranches[j] = lastMerged.branches[i]

Protected(name) ==
    \E i \in DOMAIN cfg.ProtectedRegex :
        CompilesAndMatches(cfg.ProtectedRegex[i], name)

Included(name) ==
    \E i \in DOMAIN cfg.IncludeRegex :
        CompilesAndMatches(cfg.IncludeRegex[i], name)

\* C1: no branch named in cfg.BaseBranches is a deletion candidate or is
\* passed to DeleteBranch.
C1_BaseBranchNeverDeleted ==
    /\ \A i \in DOMAIN qualifyingBranches :
          qualifyingBranches[i].Name \notin SeqToSet(cfg.BaseBranches)
    /\ \A i \in DOMAIN deleteLog :
          deleteLog[i].branch.Name \notin SeqToSet(cfg.BaseBranches)

\* C2: a branch whose name matches a compilable pattern of protectedRegex
\* is neither a deletion candidate nor passed to DeleteBranch.
C2_ProtectedNeverDeleted ==
    /\ \A i \in DOMAIN qualifyingBranches : ~Protected(qualifyingBranches[i].Name)
    /\ \A i \in DOMAIN deleteLog : ~Protected(deleteLog[i].branch.Name)

\* a protected record that passes every other step came back from the last
\* query, and the run went on to delete the candidates
C2_Witness ==
    /\ pc = "summary"
    /\ deleteLog # <<>>
    /\ \E i \in DOMAIN lastMerged.branches :
          LET b == lastMerged.branches[i]
          IN  /\ Protected(b.Name)
              /\ ~b.IsCurrent
              /\ Now - b.LastCommitAt >= cfg.MaxAge
              /\ Included(b.Name)
              /\ ~(localOnly /\ b.IsRemote)
              /\ ~(remoteOnly /\ ~b.IsRemote)

\* C3: with --dry-run a clean run calls DeleteBranch and the client's
\* delete operations not at all, and the refs of the repository stay as
\* they were.
C3_DryRunDeletesNothing ==
    dryRun =>
        /\ deleteLog = <<>>
        /\ calls = <<>>
        /\ branches = RepoBranches

C3_Witness ==
    /\ dryRun
    /\ pc = "dryrun"
    /\ Len(qualifyingBranches) > 1

\* the five conditions of the policy filter, stated on one record
C4_Passes(b) ==
    /\ b.IsCurrent = FALSE
    /\ Now - b.LastCommitAt >= cfg.MaxAge
    /\ ~(localOnly /\ b.IsRemote)
    /\ ~(remoteOnly /\ ~b.IsRemote)
    /\ Included(b.Name)
    /\ IsProtectedBranch(b, cfg.ProtectedRegex) = FALSE

\* C4: for a base branch whose merged-branch query succeeds, the records
\* appended to the candidates are exactly the records of that query that
\* are not current, are aged at least maxAge, are within the scope flags,
\* match a compilable include pattern and are not protected.
C4_CandidatesAreTheQualifying ==
    [][(baseIdx' = baseIdx + 1 /\ ~lastMerged'.err) =>
          qualifyingBranches' =
              qualifyingBranches \o SelectSeq(lastMerged'.branches, C4_Passes)]_vars

\* a record aged exactly maxAge was appended while another one was left out
C4_Witness ==
    /\ pc = "bases"
    /\ baseIdx = 2
    /\ ~lastMerged.err
    /\ \E i \in DOMAIN lastMerged.branches, j \in DOMAIN qualifyingBranches :
          /\ Now - lastMerged.branches[i].LastCommitAt = cfg.MaxAge
          /\ qualifyingBranches[j] = lastMerged.branches[i]
    /\ Len(qualifyingBranches) < Len(lastMerged.branches)

SameBranch(a, b) == a.Name = b.Name /\ a.IsRemote = b.IsRemote

\* C5: a branch appears at most once in the candidate list and is passed
\* to DeleteBranch at most once in a run.
C5_NoDoubleProcessing ==
    /\ \A i, j \in DOMAIN qualifyingBranches :
          i # j => ~SameBranch(qualifyingBranches[i], qualifyingBranches[j])
    /\ \A i, j \in DOMAIN deleteLog :
          i # j => ~SameBranch(deleteLog[i].branch, deleteLog[j].branch)

\* C6: without --dry-run DeleteBranch is called once per candidate, in list
\* order, failures included; at the end successCount + failCount is the
\* number of candidates and failCount the number of failed calls.
C6_DeleteEachOnceInOrder ==
    /\ pc \in {"delete", "summary"} =>
          /\ Len(deleteLog) = delIdx - 1
          /\ \A i \in DOMAIN deleteLog :
                deleteLog[i].branch = qualifyingBranches[i]
          /\ successCount + failCount = Len(deleteLog)
          /\ failCount = Cardinality({i \in DOMAIN deleteLog : deleteLog[i].err})
    /\ pc = "summary" =>
          /\ Len(deleteLog) = Len(qualifyingBranches)
          /\ successCount + failCount = Len(qualifyingBranches)

\* a failed deletion was followed by a successful one
C6_Witness ==
    /\ pc = "summary"
    /\ \E i, j \in DOMAIN deleteLog :
          i < j /\ deleteLog[i].err /\ ~deleteLog[j].err

====
